---- MODULE Spec2Model ----
(***************************************************************************)
(* Model of standardize_data.py: the header reconciler standardize_sheet,  *)
(* the per-file pipeline standardize_data (read_file, set_column_headers,  *)
(* save_file) and the folder driver standardize_folder.                    *)
(*                                                                         *)
(* A DataFrame is a record [columns, rows]: columns is the sequence of     *)
(* column labels, rows the sequence of rows, each a sequence of cells of   *)
(* the same length as columns (a DataFrame is rectangular).  Sequences are *)
(* 1-based, the source's indices 0-based: iloc and the helpers below keep  *)
(* the source's 0-based numbers.                                           *)
(*                                                                         *)
(* Cells and labels are tagged tuples, so that values of different kinds   *)
(* can be compared:                                                        *)
(*   <<"str", s>>      the string s                                        *)
(*   <<"nan">>         a missing cell (NaN)                                *)
(*   <<"val", r, c>>   the value a target sheet holds at row r, column c   *)
(*   <<"int", i>>      the integer column label i                          *)
(*   <<"col", i>>      the string label of column i of a sheet as read     *)
(*                                                                         *)
(* The sheets given to standardize_sheet are sheets as read_file yields    *)
(* them from a report: their column labels are strings, distinct from the  *)
(* integer labels range(num_cols) that lines 95-100 assign, and their      *)
(* header cells are strings or missing, so that the only falsy header of   *)
(* line 81 is the empty string.                                            *)
(***************************************************************************)
EXTENDS Integers, Sequences, FiniteSets, TLC

VARIABLES
    \* standardize_sheet on its own
    base_df, new_df, standardized, restandardized, phase,
    \* the file system and the arguments of standardize_folder
    fs, base_file, folder_path,
    \* standardize_folder: the discovered files and the position of its loop
    files, idx,
    \* standardize_data: its argument, its locals, the pending exception
    new_file, base_sheets, new_sheets, standardized_sheets, todo, exc,
    \* the program counter, what was printed, and two records of the run:
    \* the calls of standardize_data and the files opened for writing
    pc, stdout, calls, writes, fs0

sheetVars == <<base_df, new_df, standardized, restandardized, phase>>
batchVars == <<fs, base_file, folder_path, files, idx, new_file, base_sheets,
               new_sheets, standardized_sheets, todo, exc, pc, calls, writes,
               fs0>>
vars == <<sheetVars, batchVars, stdout>>

(***************************************************************************)
(* Bounds of the model.                                                    *)
(***************************************************************************)
MaxCols == 3
MaxData == 2
MaxFiles == 2

(***************************************************************************)
(* Values.                                                                 *)
(***************************************************************************)
Str(s) == <<"str", s>>
NaN == <<"nan">>
EmptyStr == Str("")
None == -1

\* Python truthiness of a header cell after fillna(''): only '' is falsy
\* among the labels of the model.
Truthy(h) == h # EmptyStr

Min(a, b) == IF a < b THEN a ELSE b

\* range(n) as a sequence of integer column labels 0 .. n-1
RangeLabels(n) == [i \in 1..n |-> <<"int", i - 1>>]

\* len(df): the number of rows
NumRows(df) == Len(df.rows)

\* df.shape[1]
NumCols(df) == Len(df.columns)

\* df.iloc[i]: row i, 0-based
iloc(df, i) == df.rows[i + 1]

\* Series.fillna(''): every missing cell becomes the empty string
fillna(row) == [i \in 1..Len(row) |-> IF row[i] = NaN THEN EmptyStr ELSE row[i]]

header_row == 9

\* {h: i for i, h in enumerate(new_headers) if h}: the entries are inserted
\* left to right, a later entry of the same key replacing the earlier one.
RECURSIVE HeaderToColFrom(_, _, _)
HeaderToColFrom(new_headers, i, m) ==
    IF i >= Len(new_headers) THEN m
    ELSE LET h == new_headers[i + 1]
         IN  HeaderToColFrom(new_headers, i + 1,
                             IF Truthy(h) THEN (h :> i) @@ m ELSE m)

\* Faulty variant of new_header_to_col: the first column of a label wins.
HeaderToColFirst(new_headers) ==
    LET keys == {new_headers[k] : k \in 1..Len(new_headers)} \ {EmptyStr}
    IN  [h \in keys |->
           (CHOOSE k \in 1..Len(new_headers) :
              /\ new_headers[k] = h
              /\ \A j \in 1..(k - 1) : new_headers[j] # h) - 1]

\* Faulty variant of new_header_to_col: without the filter "if h", the empty
\* header is a key like any other.
HeaderToColWithEmpty(new_headers) ==
    LET keys == {new_headers[k] : k \in 1..Len(new_headers)}
    IN  [h \in keys |->
           (CHOOSE k \in 1..Len(new_headers) :
              /\ new_headers[k] = h
              /\ \A j \in (k + 1)..Len(new_headers) : new_headers[j] # h) - 1]

\* line 81
new_header_to_col(new_headers) == HeaderToColFrom(new_headers, 0, <<>>)

\* Faulty variant of new_col_indices: columns are matched by position.
NewColIndicesPositional(base_headers, new_headers) ==
    [k \in 1..Len(base_headers) |->
        IF k <= Len(new_headers) THEN k - 1 ELSE None]

\* the loop of lines 85-87, the index list it builds: for each base header
\* the target column of that label, or None
new_col_indices(base_headers, new_headers) ==
    LET m == new_header_to_col(new_headers)
    IN  [k \in 1..Len(base_headers) |->
            IF base_headers[k] \in DOMAIN m THEN m[base_headers[k]] ELSE None]

\* Faulty variant of standardized_headers: the target's own headers are kept
\* where it has them.
StandardizedHeadersFromNew(base_headers, new_headers) ==
    [k \in 1..Len(base_headers) |->
        IF k <= Len(new_headers) THEN new_headers[k] ELSE base_headers[k]]

\* the loop of lines 85-86, the header list it builds
standardized_headers(base_headers, new_headers) == base_headers

\* Faulty variant of MetaRow: the added columns are left missing.
MetaRowPadNaN(row, num_cols) ==
    [c \in 1..num_cols |-> IF c <= Len(row) THEN row[c] ELSE NaN]

\* lines 92-100: one metadata row padded with '' or trimmed to num_cols
MetaRow(row, num_cols) ==
    IF Len(row) < num_cols
    THEN [c \in 1..num_cols |-> IF c <= Len(row) THEN row[c] ELSE EmptyStr]
    ELSE IF Len(row) > num_cols
    THEN SubSeq(row, 1, num_cols)
    ELSE row

\* lines 110-116: one data row rearranged by the index list
NewRow(row, indices) ==
    [k \in 1..Len(indices) |->
        IF indices[k] # None /\ indices[k] < Len(row)
        THEN row[indices[k] + 1]
        ELSE EmptyStr]

\* Faulty variant of data_rows: new_df.iloc[header_row:], header row included.
DataRowsFromHeader(df) == SubSeq(df.rows, header_row + 1, Len(df.rows))

\* line 106: new_df.iloc[header_row+1:]
data_rows(df) == SubSeq(df.rows, header_row + 2, Len(df.rows))

\* lines 74-76: the guard of the short-sheet return
NotEnoughRows(b, n) == NumRows(b) <= header_row \/ NumRows(n) <= header_row

\* lines 78-124: the reconciliation proper
Reconcile(b, n) ==
    LET base_headers == fillna(iloc(b, header_row))
        new_headers == fillna(iloc(n, header_row))
        headers == standardized_headers(base_headers, new_headers)
        indices == new_col_indices(base_headers, new_headers)
        num_cols == Len(headers)
        meta_rows == [r \in 1..header_row |-> MetaRow(n.rows[r], num_cols)]
        data == data_rows(n)
        new_data == [r \in 1..Len(data) |-> NewRow(data[r], indices)]
    IN  [columns |-> RangeLabels(num_cols),
         rows |-> meta_rows \o <<headers>> \o new_data]

\* line 75: what standardize_sheet prints
Warning == <<"WARNING: Not enough rows to standardize. Skipping sheet.">>

standardize_sheet_prints(b, n) ==
    IF NotEnoughRows(b, n) THEN <<Warning>> ELSE <<>>

\* Faulty variant of ShortReturn: the base sheet is returned.
ShortReturnsBase(b, n) == b

\* line 76
ShortReturn(b, n) == n

standardize_sheet(b, n) ==
    IF NotEnoughRows(b, n) THEN ShortReturn(b, n) ELSE Reconcile(b, n)

(***************************************************************************)
(* Input sheets.  A sheet as read has the string labels <<"col", i>>; the  *)
(* cells of its header row are labels or missing, every other cell of a    *)
(* target sheet is the distinct value <<"val", r, c>>, so that a cell of   *)
(* the output identifies the target cell it was copied from.               *)
(***************************************************************************)
Labels == {Str("A"), Str("B")}
HeaderCells == Labels \cup {NaN, EmptyStr}

\* the header rows of a target sheet; those of a base sheet, read from a
\* file, hold labels and missing cells
HeaderRows == UNION {[1..n -> HeaderCells] : n \in 1..MaxCols}
BaseHeaderRows == UNION {[1..n -> Labels \cup {NaN}] : n \in 1..MaxCols}

MakeSheet(hdr, nrows) ==
    [columns |-> [c \in 1..Len(hdr) |-> <<"col", c - 1>>],
     rows |-> [r \in 1..nrows |->
                 IF r = header_row + 1 THEN hdr
                 ELSE [c \in 1..Len(hdr) |-> <<"val", r - 1, c - 1>>]]]

RowCounts == header_row..(header_row + 1 + MaxData)

Sheets == {MakeSheet(h, n) : h \in HeaderRows, n \in RowCounts}

NoSheet == [columns |-> <<>>, rows |-> <<>>]

(***************************************************************************)
(* The file system.  A file is a record: whether it lies in the folder,    *)
(* its extension, its condition and its content.  The content of an .xlsx  *)
(* file is a workbook, a function from sheet names to DataFrames; that of  *)
(* any other file is one DataFrame.  The conditions are                    *)
(*   "ok"       reads and writes succeed                                   *)
(*   "corrupt"  reading raises                                             *)
(*   "locked"   opening for writing raises PermissionError                 *)
(*   "wfail"    the file is opened for writing, and writing then raises    *)
(* A file is named by its number; a path is <<spelling, number>>, relative *)
(* or absolute, and os.path.abspath gives the absolute spelling.           *)
(***************************************************************************)
NoExc == "none"
NoFile == <<"abs", -1>>
EmptyDict == <<>>

SheetOrder == <<"Doc info", "Sheet1", "Summary">>
PassThrough == {"Doc info", "Summary"}
Title == Str("Information Security Performance Indicator Reporting (ISPIRI)")

BaseSample == MakeSheet(<<Str("A"), NaN, Str("B")>>, header_row + 1)
TargetSample == MakeSheet(<<Str("B"), Str("A")>>, header_row + 2)

Workbook(names, df) == [s \in names |-> df]

BaseNameSets == {{"Doc info", "Sheet1", "Summary"}, {"Sheet1"}}
TargetNameSets == {{"Doc info", "Sheet1", "Summary"}, {"Sheet1", "Summary"},
                   {"Doc info", "Summary"}}

AllNames == {"Doc info", "Sheet1", "Summary"}

BaseFiles ==
    {[infolder |-> d, ext |-> ".xlsx", status |-> "ok",
      content |-> Workbook(ns, BaseSample)] :
        d \in BOOLEAN, ns \in BaseNameSets}
    \cup {[infolder |-> FALSE, ext |-> ".xlsx", status |-> "corrupt",
           content |-> Workbook(AllNames, BaseSample)]}
    \cup {[infolder |-> d, ext |-> ".csv", status |-> "ok",
           content |-> BaseSample] : d \in BOOLEAN}
    \cup {[infolder |-> TRUE, ext |-> ".txt", status |-> "ok",
           content |-> BaseSample]}

TargetFiles ==
    {[infolder |-> TRUE, ext |-> ".xlsx", status |-> "ok",
      content |-> Workbook(ns, TargetSample)] : ns \in TargetNameSets}
    \cup {[infolder |-> TRUE, ext |-> ".xlsx", status |-> st,
           content |-> Workbook(AllNames, TargetSample)] :
             st \in {"corrupt", "locked", "wfail"}}
    \cup {[infolder |-> TRUE, ext |-> e, status |-> "ok",
           content |-> TargetSample] : e \in {".csv", ".txt"}}

abspath(p) == <<"abs", p[2]>>
File(p) == fs[p[2]]

\* lines 15-21
read_file(file) ==
    IF file.ext = ".csv"
    THEN IF file.status = "corrupt"
         THEN [exc |-> "ReadError", val |-> EmptyDict]
         ELSE [exc |-> NoExc, val |-> ("Sheet1" :> file.content)]
    ELSE IF file.ext = ".xlsx"
    THEN IF file.status = "corrupt"
         THEN [exc |-> "ReadError", val |-> EmptyDict]
         ELSE [exc |-> NoExc, val |-> file.content]
    ELSE [exc |-> "ValueError", val |-> EmptyDict]

\* Faulty variant of save_file: the extension is not looked at.
SaveFileAnyExtension(df_dict, file) ==
    IF file.status = "locked"
    THEN [exc |-> "PermissionError", opened |-> FALSE, file |-> file]
    ELSE [exc |-> NoExc, opened |-> TRUE,
          file |-> [file EXCEPT !.content = df_dict]]

\* lines 31-37: the exception save_file raises, if any, whether the file was
\* opened for writing, and the file it leaves
save_file(df_dict, file) ==
    IF file.ext = ".xlsx"
    THEN IF file.status = "locked"
         THEN [exc |-> "PermissionError", opened |-> FALSE, file |-> file]
         ELSE IF file.status = "wfail"
         THEN [exc |-> "OSError", opened |-> TRUE,
               file |-> [file EXCEPT !.status = "corrupt",
                                     !.content = EmptyDict]]
         ELSE [exc |-> NoExc, opened |-> TRUE,
               file |-> [file EXCEPT !.content = df_dict]]
    ELSE [exc |-> "ValueError", opened |-> FALSE, file |-> file]

\* lines 135-140
set_column_headers(df, title) ==
    IF NumCols(df) = 0 THEN df
    ELSE [df EXCEPT !.columns =
             [c \in 1..NumCols(df) |-> IF c = 1 THEN title ELSE EmptyStr]]

\* base_sheets.keys(): the sheet names in the workbook's order
Keys(book) == SelectSeq(SheetOrder, LAMBDA s : s \in DOMAIN book)

\* line 183: except PermissionError
SaveHandlerCatches(e) == e = "PermissionError"

\* line 191: except Exception
DataHandlerCatches(e) == e # NoExc

\* lines 208-211: glob.glob of one pattern, the files of the folder with
\* that extension, each spelled as the folder path is
glob(pattern_ext) ==
    LET ids == {i \in DOMAIN fs : fs[i].infolder /\ fs[i].ext = pattern_ext}
    IN  [k \in 1..Cardinality(ids) |->
            <<folder_path, CHOOSE i \in ids :
                 Cardinality({j \in ids : j < i}) = k - 1>>]

\* Faulty variant of Discover: the paths are compared as they are spelled.
DiscoverNoAbspath ==
    SelectSeq(glob(".xlsx") \o glob(".csv"), LAMBDA f : f # base_file)

\* lines 208-213: the .xlsx files, then the .csv files, without the base file
Discover ==
    SelectSeq(glob(".xlsx") \o glob(".csv"),
              LAMBDA f : abspath(f) # abspath(base_file))

(***************************************************************************)
(* Spec: standardize_folder(base_file, folder_path), one action for each   *)
(* block of standardize_folder and standardize_data.                       *)
(***************************************************************************)
BatchIdle ==
    /\ fs = <<>> /\ fs0 = <<>>
    /\ base_file = NoFile /\ folder_path = "abs"
    /\ files = <<>> /\ idx = 0
    /\ new_file = NoFile
    /\ base_sheets = EmptyDict /\ new_sheets = EmptyDict
    /\ standardized_sheets = EmptyDict
    /\ todo = <<>> /\ exc = NoExc
    /\ pc = "idle" /\ calls = <<>> /\ writes = <<>>

SheetIdle ==
    /\ base_df = NoSheet /\ new_df = NoSheet
    /\ standardized = NoSheet /\ restandardized = NoSheet
    /\ phase = "idle"

Init ==
    /\ SheetIdle
    /\ \E n \in 0..MaxFiles :
          fs \in {f \in [0..n -> BaseFiles \cup TargetFiles] :
                     /\ f[0] \in BaseFiles
                     /\ \A i \in 1..n : f[i] \in TargetFiles}
    /\ fs0 = fs
    /\ base_file \in {<<"abs", 0>>, <<"rel", 0>>}
    /\ folder_path \in {"abs", "rel"}
    /\ files = <<>> /\ idx = 0
    /\ new_file = NoFile
    /\ base_sheets = EmptyDict /\ new_sheets = EmptyDict
    /\ standardized_sheets = EmptyDict
    /\ todo = <<>> /\ exc = NoExc
    /\ pc = "start" /\ stdout = <<>> /\ calls = <<>> /\ writes = <<>>

\* lines 208-216
FindFiles ==
    /\ pc = "start"
    /\ files' = Discover
    /\ IF files' = <<>>
       THEN /\ stdout' = Append(stdout, <<"No .xlsx or .csv files found">>)
            /\ pc' = "done"
       ELSE /\ stdout' = stdout
            /\ pc' = "loop"
    /\ UNCHANGED <<sheetVars, fs, fs0, base_file, folder_path, idx, new_file,
                   base_sheets, new_sheets, standardized_sheets, todo, exc,
                   calls, writes>>

\* lines 217-220: the next file of the loop, and the call of standardize_data
NextFile ==
    /\ pc = "loop" /\ idx < Len(files)
    /\ new_file' = files[idx + 1]
    /\ stdout' = Append(stdout, <<"Processing file", files[idx + 1]>>)
    /\ calls' = Append(calls, <<base_file, files[idx + 1]>>)
    /\ base_sheets' = EmptyDict /\ new_sheets' = EmptyDict
    /\ standardized_sheets' = EmptyDict /\ todo' = <<>>
    /\ pc' = "read_base"
    /\ UNCHANGED <<sheetVars, fs, fs0, base_file, folder_path, files, idx, exc,
                   writes>>

\* line 217: the loop is over
EndLoop ==
    /\ pc = "loop" /\ idx >= Len(files)
    /\ pc' = "done"
    /\ UNCHANGED <<sheetVars, fs, fs0, base_file, folder_path, files, idx,
                   new_file, base_sheets, new_sheets, standardized_sheets,
                   todo, exc, stdout, calls, writes>>

\* line 150
ReadBase ==
    /\ pc = "read_base"
    /\ LET r == read_file(File(base_file))
       IN  IF r.exc # NoExc
           THEN /\ exc' = r.exc /\ pc' = "except"
                /\ UNCHANGED base_sheets
           ELSE /\ base_sheets' = r.val /\ pc' = "read_new"
                /\ UNCHANGED exc
    /\ UNCHANGED <<sheetVars, fs, fs0, base_file, folder_path, files, idx,
                   new_file, new_sheets, standardized_sheets, todo, stdout,
                   calls, writes>>

\* lines 151-157
ReadNew ==
    /\ pc = "read_new"
    /\ LET r == read_file(File(new_file))
       IN  IF r.exc # NoExc
           THEN /\ exc' = r.exc /\ pc' = "except"
                /\ UNCHANGED <<new_sheets, todo>>
           ELSE /\ new_sheets' = r.val /\ todo' = Keys(base_sheets)
                /\ pc' = "sheets"
                /\ UNCHANGED exc
    /\ UNCHANGED <<sheetVars, fs, fs0, base_file, folder_path, files, idx,
                   new_file, base_sheets, standardized_sheets, stdout, calls,
                   writes>>

\* lines 157-176: one turn of the loop over the sheet names of the base
ProcessSheet ==
    /\ pc = "sheets" /\ todo # <<>>
    /\ LET sheet_name == Head(todo)
       IN  IF sheet_name \notin DOMAIN new_sheets
           THEN /\ exc' = "KeyError" /\ pc' = "except"
                /\ UNCHANGED <<standardized_sheets, todo, stdout>>
           ELSE LET b == base_sheets[sheet_name]
                    n == new_sheets[sheet_name]
                    sheet == IF sheet_name \in PassThrough THEN n
                             ELSE standardize_sheet(b, n)
                    printed == IF sheet_name \in PassThrough THEN <<>>
                               ELSE standardize_sheet_prints(b, n)
                IN  /\ standardized_sheets' =
                          (sheet_name :> set_column_headers(sheet, Title))
                              @@ standardized_sheets
                    /\ stdout' = stdout \o printed
                                   \o <<<<"Processing sheet", sheet_name>>>>
                    /\ todo' = Tail(todo)
                    /\ UNCHANGED <<exc, pc>>
    /\ UNCHANGED <<sheetVars, fs, fs0, base_file, folder_path, files, idx,
                   new_file, base_sheets, new_sheets, calls, writes>>

\* lines 178-189: save_file and the handler of PermissionError
Save ==
    /\ pc = "sheets" /\ todo = <<>>
    /\ LET r == save_file(standardized_sheets, File(new_file))
       IN  /\ fs' = [fs EXCEPT ![new_file[2]] = r.file]
           /\ writes' = IF r.opened THEN Append(writes, new_file) ELSE writes
           /\ IF r.exc = NoExc
              THEN /\ stdout' = Append(stdout,
                                   <<"has been standardized successfully", new_file>>)
                   /\ pc' = "return" /\ UNCHANGED exc
              ELSE IF SaveHandlerCatches(r.exc)
              THEN /\ stdout' = Append(stdout,
                                   <<"ERROR: Could not save the file", new_file>>)
                   /\ pc' = "return" /\ UNCHANGED exc
              ELSE /\ exc' = r.exc /\ pc' = "except"
                   /\ UNCHANGED stdout
    /\ UNCHANGED <<sheetVars, fs0, base_file, folder_path, files, idx,
                   new_file, base_sheets, new_sheets, standardized_sheets,
                   todo, calls>>

\* lines 191-198: the handler of standardize_data
Except ==
    /\ pc = "except"
    /\ IF DataHandlerCatches(exc)
       THEN /\ stdout' = Append(stdout, <<"An error occurred", exc>>)
            /\ exc' = NoExc
       ELSE UNCHANGED <<stdout, exc>>
    /\ pc' = "return"
    /\ UNCHANGED <<sheetVars, fs, fs0, base_file, folder_path, files, idx,
                   new_file, base_sheets, new_sheets, standardized_sheets,
                   todo, calls, writes>>

\* lines 219-222: standardize_data is back, with or without an exception
Return ==
    /\ pc = "return"
    /\ IF exc # NoExc
       THEN /\ stdout' = Append(stdout, <<"Failed to process", new_file, exc>>)
            /\ exc' = NoExc
       ELSE UNCHANGED <<stdout, exc>>
    /\ idx' = idx + 1
    /\ pc' = "loop"
    /\ UNCHANGED <<sheetVars, fs, fs0, base_file, folder_path, files,
                   new_file, base_sheets, new_sheets, standardized_sheets,
                   todo, calls, writes>>

Next ==
    \/ FindFiles \/ NextFile \/ EndLoop
    \/ ReadBase \/ ReadNew \/ ProcessSheet \/ Save \/ Except \/ Return

Spec == Init /\ [][Next]_vars

(***************************************************************************)
(* SpecSheet: standardize_sheet applied to every pair of input sheets, and *)
(* then once more to its own result.                                       *)
(***************************************************************************)
InitSheet ==
    /\ base_df \in {MakeSheet(h, n) : h \in BaseHeaderRows,
                                      n \in {header_row, header_row + 1}}
    /\ new_df \in Sheets
    /\ standardized = NoSheet
    /\ restandardized = NoSheet
    /\ phase = "input"
    /\ stdout = <<>>
    /\ BatchIdle

Standardize ==
    /\ phase = "input"
    /\ standardized' = standardize_sheet(base_df, new_df)
    /\ stdout' = stdout \o standardize_sheet_prints(base_df, new_df)
    /\ phase' = "once"
    /\ UNCHANGED <<base_df, new_df, restandardized, batchVars>>

Restandardize ==
    /\ phase = "once"
    /\ restandardized' = standardize_sheet(base_df, standardized)
    /\ stdout' = stdout \o standardize_sheet_prints(base_df, standardized)
    /\ phase' = "twice"
    /\ UNCHANGED <<base_df, new_df, standardized, batchVars>>

NextSheet == Standardize \/ Restandardize

SpecSheet == InitSheet /\ [][NextSheet]_vars

(***************************************************************************)
(* Properties of standardize_sheet, stated over SpecSheet.                 *)
(***************************************************************************)
Applied == phase # "input"
BothLong == NumRows(base_df) >= 10 /\ NumRows(new_df) >= 10

\* the base header row H: row 9 of the base sheet, a missing cell read as ''
H == [i \in 1..NumCols(base_df) |->
        IF base_df.rows[10][i] = NaN THEN EmptyStr ELSE base_df.rows[10][i]]

\* the target's own header row, a missing cell read as ''
TH == [j \in 1..NumCols(new_df) |->
        IF new_df.rows[10][j] = NaN THEN EmptyStr ELSE new_df.rows[10][j]]

\* the 1-based positions of the data rows (rows 10 and later) of the target
DataPos == 11..NumRows(new_df)

\* the target columns (1-based) whose row-9 header is the label h
ColsOf(h) == {j \in 1..Len(TH) : TH[j] = h}
FirstCol(h) == CHOOSE j \in ColsOf(h) : \A k \in ColsOf(h) : j <= k
LastCol(h) == CHOOSE j \in ColsOf(h) : \A k \in ColsOf(h) : j >= k

\* C1: when both sheets have at least 10 rows, row 9 of the result is the
\* base header row H: same length, same labels, same order, whatever the
\* target's own row-9 headers are.
C1_HeaderRowIsBase ==
    (Applied /\ BothLong) => standardized.rows[10] = H

C1_Witness ==
    /\ phase = "once" /\ BothLong
    /\ Len(TH) # Len(H)
    /\ \E i \in 1..Len(H) : base_df.rows[10][i] = NaN
    /\ \E i \in 1..Min(Len(H), Len(TH)) : TH[i] # H[i]
    /\ standardized.rows[10] = H

\* C2 as claimed: when every label of the base header row occurs in the
\* target header row, every data cell at column i is the target's cell of the
\* same row at a column headed h_i, also for the empty-string label, and the
\* data rows are neither added, dropped nor reordered.
C2_RoundTripAllLabels ==
    (Applied /\ BothLong /\ \A i \in 1..Len(H) : ColsOf(H[i]) # {}) =>
        /\ NumRows(standardized) = NumRows(new_df)
        /\ \A r \in DataPos : \A i \in 1..Len(H) :
              \E j \in ColsOf(H[i]) : standardized.rows[r][i] = new_df.rows[r][j]

\* C2 amended: the round trip holds for the non-empty labels of the base
\* header row; a base position whose label is the empty string holds the
\* empty string in every data row, an empty target header never matching.
C2_RoundTripNonEmptyLabels ==
    (Applied /\ BothLong /\ \A i \in 1..Len(H) : ColsOf(H[i]) # {}) =>
        /\ NumRows(standardized) = NumRows(new_df)
        /\ \A r \in DataPos : \A i \in 1..Len(H) :
              IF H[i] = EmptyStr
              THEN standardized.rows[r][i] = EmptyStr
              ELSE \E j \in ColsOf(H[i]) :
                      standardized.rows[r][i] = new_df.rows[r][j]

C2_Witness ==
    /\ phase = "once" /\ BothLong
    /\ \A i \in 1..Len(H) : ColsOf(H[i]) # {}
    /\ NumRows(new_df) >= 12
    /\ \E i \in 1..Len(H) : H[i] = EmptyStr
    /\ \E i \in 1..Len(H) : H[i] # EmptyStr /\ i \notin ColsOf(H[i])
    /\ \A r \in DataPos : \A i \in 1..Len(H) :
          H[i] # EmptyStr =>
             \E j \in ColsOf(H[i]) : standardized.rows[r][i] = new_df.rows[r][j]

\* C3 as claimed: a label that heads more than one target column is taken,
\* at every base position carrying it, from the first (lowest-index) of
\* those target columns.  Stated for the non-empty labels, the ones that are
\* looked up at all (C2 settles the empty one).
C3_FirstMatchWins ==
    (Applied /\ BothLong) =>
        \A i \in 1..Len(H) :
            (H[i] # EmptyStr /\ Cardinality(ColsOf(H[i])) > 1) =>
                \A r \in DataPos :
                    standardized.rows[r][i] = new_df.rows[r][FirstCol(H[i])]

\* C3 amended: a non-empty label that heads more than one target column is
\* taken, at every base position carrying it, from the last (highest-index)
\* of those target columns.
C3_LastMatchWins ==
    (Applied /\ BothLong) =>
        \A i \in 1..Len(H) :
            (H[i] # EmptyStr /\ Cardinality(ColsOf(H[i])) > 1) =>
                \A r \in DataPos :
                    standardized.rows[r][i] = new_df.rows[r][LastCol(H[i])]

C3_Witness ==
    /\ phase = "once" /\ BothLong
    /\ NumRows(new_df) >= 11
    /\ \E i, k \in 1..Len(H) :
          /\ i # k /\ H[i] = H[k] /\ H[i] # EmptyStr
          /\ Cardinality(ColsOf(H[i])) > 1
          /\ \A r \in DataPos :
                /\ standardized.rows[r][i] = new_df.rows[r][LastCol(H[i])]
                /\ standardized.rows[r][k] = new_df.rows[r][LastCol(H[i])]

\* C6: when both sheets have at least 10 rows, each of rows 0-8 of the
\* result has len(H) columns; a column below the target's column count holds
\* the target's cell of the same row and column, a column at or beyond it
\* holds the empty string, and target columns at or beyond len(H) are gone.
C6_MetadataPaddedOrTruncated ==
    (Applied /\ BothLong) =>
        \A r \in 1..9 :
            /\ Len(standardized.rows[r]) = Len(H)
            /\ \A c \in 1..Len(H) :
                  standardized.rows[r][c] =
                     IF c <= NumCols(new_df) THEN new_df.rows[r][c] ELSE EmptyStr

C6_Witness ==
    /\ phase = "once" /\ BothLong
    /\ NumCols(new_df) < Len(H)
    /\ \A r \in 1..9 :
          /\ Len(standardized.rows[r]) = Len(H)
          /\ standardized.rows[r][1] = new_df.rows[r][1]
          /\ standardized.rows[r][Len(H)] = EmptyStr

\* C7: when both sheets have at least 10 rows, standardizing the result
\* again against the same base sheet gives the same sheet, cell for cell.
C7_Idempotent ==
    (phase = "twice" /\ BothLong) => restandardized = standardized

C7_Witness ==
    /\ phase = "twice" /\ BothLong
    /\ NumRows(new_df) >= 12
    /\ \E i, k \in 1..Len(H) : i # k /\ H[i] = H[k] /\ H[i] # EmptyStr
    /\ \E i \in 1..Len(H) : H[i] = EmptyStr
    /\ \E j \in 1..Len(TH) : TH[j] = EmptyStr
    /\ standardized.rows # new_df.rows
    /\ restandardized = standardized

\* C8: when both sheets have at least 10 rows, a base position whose label
\* occurs nowhere in the target header row holds the empty string in every
\* data row of the result.
C8_MissingLabelIsEmpty ==
    (Applied /\ BothLong) =>
        \A i \in 1..Len(H) :
            ColsOf(H[i]) = {} =>
                \A r \in DataPos : standardized.rows[r][i] = EmptyStr

C8_Witness ==
    /\ phase = "once" /\ BothLong
    /\ NumRows(new_df) >= 12
    /\ \E i \in 1..Min(Len(H), Len(TH)) :
          /\ H[i] # EmptyStr /\ ColsOf(H[i]) = {}
          /\ \A r \in DataPos : standardized.rows[r][i] = EmptyStr

\* C9: when the base sheet or the target sheet has 9 rows or fewer, the
\* result is the target sheet itself, column labels, rows and cells; a
\* reconciled result (integer column labels, header row H) is produced only
\* when both sheets have at least 10 rows.
C9_ShortSheetUnmodified ==
    /\ Applied =>
          IF BothLong
          THEN standardized.columns = RangeLabels(NumCols(base_df))
          ELSE standardized = new_df
    /\ phase = "once" => stdout = IF BothLong THEN <<>> ELSE <<Warning>>

C9_Witness ==
    /\ phase = "once"
    /\ NumRows(base_df) <= 9 /\ NumRows(new_df) >= 11
    /\ NumCols(base_df) # NumCols(new_df)
    /\ standardized = new_df
    /\ stdout = <<Warning>>

(***************************************************************************)
(* Properties of standardize_data and standardize_folder, stated over Spec.*)
(***************************************************************************)
InCall == pc \in {"read_base", "read_new", "sheets", "except", "return"}

\* the files standardize_folder has to process: those of the folder with one
\* of the two extensions, the base file left out
Candidates ==
    {i \in DOMAIN fs0 : i # 0 /\ fs0[i].infolder /\ fs0[i].ext \in {".xlsx", ".csv"}}

\* the sheet names of the base workbook, as read
BaseNames == DOMAIN read_file(fs0[0]).val

\* a call for file i cannot succeed: a read fails, a sheet of the base is
\* missing from the target, or the target is no .xlsx file
MustFail(i) ==
    \/ read_file(fs0[0]).exc # NoExc
    \/ read_file(fs0[i]).exc # NoExc
    \/ \E s \in BaseNames : s \notin DOMAIN read_file(fs0[i]).val
    \/ fs0[i].ext # ".xlsx"

\* C4 as claimed: when both files were read and the target is a writable
\* .xlsx file, every sheet of the base workbook that the target has is
\* processed and its standardized result written to the target file, also
\* when some other sheet of the base is missing from the target.
C4_OtherSheetsStillWritten ==
    (/\ pc = "return"
     /\ DOMAIN base_sheets # {} /\ DOMAIN new_sheets # {}
     /\ fs0[new_file[2]].ext = ".xlsx" /\ fs0[new_file[2]].status = "ok") =>
        \A s \in DOMAIN base_sheets \cap DOMAIN new_sheets :
            /\ s \in DOMAIN standardized_sheets
            /\ s \in DOMAIN File(new_file).content
            /\ File(new_file).content[s] = standardized_sheets[s]

C10_State ==
    /\ \A j, k \in 1..Len(writes) : j # k => writes[j] # writes[k]
    /\ \A i \in DOMAIN fs :
          (i # 0 /\ MustFail(i)) =>
              /\ fs[i] = fs0[i]
              /\ \A k \in 1..Len(writes) : writes[k][2] # i
    /\ pc \in {"return", "loop", "done"} => exc = NoExc

C10_Step ==
    /\ writes' # writes =>
          /\ pc = "sheets" /\ todo = <<>>
          /\ writes' = Append(writes, new_file)
          /\ read_file(fs0[0]).exc = NoExc /\ base_sheets = read_file(fs0[0]).val
          /\ read_file(File(new_file)).exc = NoExc
          /\ new_sheets = read_file(File(new_file)).val
          /\ DOMAIN standardized_sheets = DOMAIN base_sheets
    /\ fs' # fs => writes' # writes

C10_WriteOnlyAfterFullSuccess == []C10_State /\ [][C10_Step]_vars

C10_Witness ==
    /\ pc = "return"
    /\ writes # <<>>
    /\ fs0[new_file[2]].ext = ".csv"
    /\ fs0[0].ext = ".csv"
    /\ DOMAIN standardized_sheets = {"Sheet1"} /\ todo = <<>>
    /\ File(new_file) = fs0[new_file[2]]
    /\ \A k \in 1..Len(writes) : writes[k] # new_file
    /\ stdout[Len(stdout)] = <<"An error occurred", "ValueError">>

====
